---- MODULE Spec2Model ----
(***************************************************************************)
(* etrace: the "run" command (cmdRun.Execute, src/cmd/etrace/main.go).     *)
(*                                                                         *)
(* The control thread is modelled statement by statement through pc; the   *)
(* background strace reader goroutine, the launched process and the        *)
(* external collaborators (scripts, xdotool, wmctrl, snaps, profiling)     *)
(* are modelled by the outcomes they can hand back to Execute.             *)
(***************************************************************************)
EXTENDS Integers, Sequences, FiniteSets, TLC

\* ---------------------------------------------------------------- bounds
MaxAdditional == 1      \* largest AdditionalIterations explored
MaxWindows == 2         \* most window ids WaitForWindow hands back
MaxDur == 2             \* durations are drawn from 1..MaxDur
MaxFaults == 2          \* most collaborator failures injected into one run

Durations == 1..MaxDur

\* A nil *strace.ExecveTiming, and a parsed one.
NilTiming == [present |-> FALSE, TotalTime |-> 0]
Timing(d) == [present |-> TRUE, TotalTime |-> d]

\* The zero Execution value.
NoRun == [ExecveTiming |-> NilTiming, TimeToDisplay |-> 0, TimeToRun |-> 0,
          Errors |-> <<>>, trial |-> 0]

VARIABLES
    cfg,            \* the parsed flags: cmdRun x and currentCmd.AdditionalIterations
    pc,             \* position of the control thread in Execute
    i,              \* loop counter of the trial loop
    outRes,         \* OutputResult.Runs
    errs,           \* the package-level errs slice
    faults,         \* collaborator failures injected so far (bounded by MaxFaults)
    dirs,           \* trials whose strace temporary directory exists
    removed,        \* trials whose strace temporary directory was removed
    fwOpen,         \* the sentinel writer fw of the current trial is open
    logFds,         \* open program log descriptors, <<trial, stream>>
    reader,         \* the reader goroutine: "none", "reading", "parsed", "done"
    slg,            \* result variable written by the reader goroutine
    straceErr,      \* error variable written by the reader goroutine
    doneCh,         \* TRUE once doneCh is closed
    proc,           \* the trial's process: "none", "running", "exited", "startfailed"
    tryXToolClose,
    tryWmctrl,
    wids,           \* window ids returned by WaitForWindow
    pids,           \* pids slice, 0 where not assigned
    k,              \* index of the pid / close / kill loops
    startup,        \* time.Since(start)
    run,            \* the Execution being built
    ret,            \* what Execute returned: "running", "nil" or the error
    occurred,       \* history: failures of this trial in order of occurrence
    calls,          \* history: collaborator calls made in this trial
    killed,         \* history: the Signal calls of this trial, pid and outcome
    parseLog,       \* history: what the parser reported, one entry per parse
    pastOccurred,   \* history: the failures of each finished trial
    everStarted,    \* history: cmd.Start() was called in this run
    everDiscarded,  \* history: snaps.DiscardSnapNs was called in this run
    fsys,           \* the files named by the flags: NoFile, or the bytes held
    fcalls,         \* history: the last EnsureExistsAndOpen call on each file
    opts,           \* x.WindowClass, x.WindowName, x.RunThroughSnap, x.Args.Cmd
    targetCmd,      \* the command line handed to exec
    windowspec,     \* the xdotool.Window criterion
    wpc             \* what is computed next: "target", "window", "resolved"

vars == <<cfg, pc, i, outRes, errs, faults, dirs, removed, fwOpen, logFds, reader, slg,
          straceErr, doneCh, proc, tryXToolClose, tryWmctrl, wids, pids, k,
          startup, run, ret, occurred, calls, killed, parseLog, pastOccurred,
          everStarted, everDiscarded, fsys, fcalls, opts, targetCmd,
          windowspec, wpc>>

ctl == <<pc, i, outRes, errs, faults, dirs, removed, fwOpen, logFds, tryXToolClose,
         tryWmctrl, wids, pids, k, startup, run, ret>>
trace == <<reader, slg, straceErr, doneCh>>
hist == <<occurred, calls, killed, parseLog, pastOccurred, everStarted,
          everDiscarded>>
\* The files and the window criterion do not steer the control flow of
\* Execute; they are followed in specifications of their own (SpecFiles,
\* SpecWindow) and stay as they are in Spec.
files == <<fsys, fcalls>>
window == <<opts, targetCmd, windowspec, wpc>>
aside == <<files, window>>
execute == <<cfg, ctl, trace, hist, proc>>

NoCalls == [wait |-> 0, pid |-> 0, close |-> 0, wmctrl |-> 0, start |-> 0,
            flush |-> 0]

\* ------------------------------------------------------------- the flags
Configs ==
    [NoTrace : BOOLEAN, NoWindowWait : BOOLEAN, RunThroughSnap : BOOLEAN,
     DiscardSnapNs : BOOLEAN,
     ProgramStdoutLog : BOOLEAN, ProgramStderrLog : BOOLEAN,
     AdditionalIterations : 0..MaxAdditional]

\* Execute has not run yet.
InitExecute ==
    /\ pc = "open_out"
    /\ i = 0
    /\ outRes = <<>>
    /\ errs = <<>>
    /\ faults = 0
    /\ dirs = {}
    /\ removed = {}
    /\ fwOpen = FALSE
    /\ logFds = {}
    /\ reader = "none"
    /\ slg = NilTiming
    /\ straceErr = FALSE
    /\ doneCh = FALSE
    /\ proc = "none"
    /\ tryXToolClose = TRUE
    /\ tryWmctrl = FALSE
    /\ wids = <<>>
    /\ pids = <<>>
    /\ k = 1
    /\ startup = 0
    /\ run = NoRun
    /\ ret = "running"
    /\ occurred = <<>>
    /\ calls = NoCalls
    /\ killed = <<>>
    /\ parseLog = <<>>
    /\ pastOccurred = <<>>
    /\ everStarted = FALSE
    /\ everDiscarded = FALSE

\* No file: os.Stat reports ENOENT.
NoFile == [exists |-> FALSE, size |-> 0]
\* No EnsureExistsAndOpen call was made on the file.
NoCall == [existed |-> FALSE, delete |-> FALSE, removed |-> FALSE,
           mode |-> "none", before |-> NoFile]
\* The files named by x.OutputFile, x.ProgramStdoutLog, x.ProgramStderrLog.
Paths == {"output", "stdout", "stderr"}
InitFiles ==
    /\ fsys = [p \in Paths |-> NoFile]
    /\ fcalls = [p \in Paths |-> NoCall]

\* Strings are sequences of characters; "" is <<>>.
Snap == <<"s", "n", "a", "p">>
RunTok == <<"r", "u", "n">>
\* xdotool.Window{}: both fields empty.
NoWindow == [Class |-> <<>>, Name |-> <<>>]
InitWindow ==
    /\ opts = [WindowClass |-> <<>>, WindowName |-> <<>>,
               RunThroughSnap |-> FALSE, Cmd |-> << <<"a">> >>]
    /\ targetCmd = <<>>
    /\ windowspec = NoWindow
    /\ wpc = "target"

Init ==
    /\ cfg \in Configs
    /\ InitExecute
    /\ InitFiles
    /\ InitWindow


\* ---------------------------------------------------------------- helpers
\* A plausible slip: the error replaces the list instead of extending it.
LogErrorOverwrites(es, e) == <<e>>

\* logError: append to errs (the live display under ShowErrors is not state).
LogError(es, e) == Append(es, e)

\* A plausible slip: the list is not emptied between trials.
ResetErrorsKeeps(es) == es

\* resetErrors: errs = nil
ResetErrors(es) == <<>>

\* The loop bound of the trial loop.
TrialCount == 1 + cfg.AdditionalIterations

\* A plausible slip: the startup time is used whether tracing or not.
RunTimeAlwaysStartup(noTrace, st, timing) == st

\* The run-time selection at the end of a trial.
RunTime(noTrace, st, timing) == IF noTrace THEN st ELSE timing.TotalTime

\* Execute returns: the deferred calls registered so far run (the log files and
\* the sentinel are closed, every strace temporary directory is removed).
RunDefers ==
    /\ removed' = removed \cup dirs
    /\ dirs' = {}
    /\ fwOpen' = FALSE
    /\ logFds' = {}

ReturnErr(e) ==
    /\ pc' = "returned"
    /\ ret' = e
    /\ RunDefers

\* A trial-error: recorded in errs, and in the history of what went wrong.
Fail(e) ==
    /\ errs' = LogError(errs, e)
    /\ occurred' = Append(occurred, e)
    /\ UNCHANGED faults

\* A collaborator fails, while the run's budget of failures lasts.
Inject(e) ==
    /\ faults < MaxFaults
    /\ faults' = faults + 1
    /\ errs' = LogError(errs, e)
    /\ occurred' = Append(occurred, e)

NoFail == UNCHANGED <<errs, faults, occurred>>

\* ------------------------------------------------- Execute, before launch
\* w := os.Stdout, or the output file (deleted first when it exists); opening
\* it can fail. x.OutputFile is read here and nowhere else, and x.JSONOutput
\* only selects the rendering: neither is kept in cfg.
OpenOutput ==
    /\ pc = "open_out"
    /\ \/ /\ ReturnErr("outfile")
          /\ UNCHANGED <<i, outRes, errs, faults, tryXToolClose, tryWmctrl, wids, pids,
                         k, startup, run>>
       \/ /\ pc' = "loop"
          /\ UNCHANGED <<i, outRes, errs, faults, dirs, removed, fwOpen, logFds,
                         tryXToolClose, tryWmctrl, wids, pids, k, startup, run,
                         ret>>
    /\ UNCHANGED <<aside, cfg, trace, proc, hist>>

\* for i = 0; i < 1+AdditionalIterations; i++
LoopHead ==
    /\ pc = "loop"
    /\ pc' = IF i < TrialCount THEN "prepare" ELSE "encode"
    /\ UNCHANGED <<aside, cfg, i, outRes, errs, faults, dirs, removed, fwOpen, logFds,
                   tryXToolClose, tryWmctrl, wids, pids, k, startup, run, ret,
                   trace, proc, hist>>

\* The prepare script: a failure is logged, never returned. x.PrepareScript
\* only decides whether the script runs, and a trial without the script is a
\* trial whose script does not fail: the flag is not kept in cfg.
Prepare ==
    /\ pc = "prepare"
    /\ \/ Inject("prepare")
       \/ NoFail
    /\ pc' = IF cfg.NoTrace THEN "stdout_log" ELSE "tmpdir"
    \* the per-iteration declarations: doneCh, straceErr, slg, cmd, fw
    /\ doneCh' = FALSE
    /\ straceErr' = FALSE
    /\ slg' = NilTiming
    /\ reader' = "none"
    /\ proc' = "none"
    /\ UNCHANGED <<aside, cfg, i, outRes, dirs, removed, fwOpen, logFds, tryXToolClose,
                   tryWmctrl, wids, pids, k, startup, run, ret, calls, killed,
                   parseLog, pastOccurred, everStarted, everDiscarded>>

\* ioutil.TempDir; defer os.RemoveAll(straceTmp)
TempDir ==
    /\ pc = "tmpdir"
    /\ \/ /\ ReturnErr("tmpdir")
       \/ /\ dirs' = dirs \cup {i}
          /\ pc' = "mkfifo"
          /\ UNCHANGED <<removed, fwOpen, logFds, ret>>
    /\ UNCHANGED <<aside, cfg, i, outRes, errs, faults, tryXToolClose, tryWmctrl, wids, pids, k,
                   startup, run, trace, proc, hist>>

\* syscall.Mkfifo
Mkfifo ==
    /\ pc = "mkfifo"
    /\ \/ ReturnErr("mkfifo")
       \/ /\ pc' = "openfifo"
          /\ UNCHANGED <<dirs, removed, fwOpen, logFds, ret>>
    /\ UNCHANGED <<aside, cfg, i, outRes, errs, faults, tryXToolClose, tryWmctrl, wids, pids, k,
                   startup, run, trace, proc, hist>>

\* fw = os.OpenFile(straceLog, O_RDWR); defer fw.Close()
OpenFifo ==
    /\ pc = "openfifo"
    /\ \/ ReturnErr("openfifo")
       \/ /\ fwOpen' = TRUE
          /\ pc' = "go_reader"
          /\ UNCHANGED <<dirs, removed, logFds, ret>>
    /\ UNCHANGED <<aside, cfg, i, outRes, errs, faults, tryXToolClose, tryWmctrl, wids, pids, k,
                   startup, run, trace, proc, hist>>

\* go func() { slg, straceErr = strace.TraceExecveTimings(...); close(doneCh) }()
GoReader ==
    /\ pc = "go_reader"
    /\ reader' = "reading"
    /\ pc' = "trace_cmd"
    /\ UNCHANGED <<aside, cfg, i, outRes, errs, faults, dirs, removed, fwOpen, logFds,
                   tryXToolClose, tryWmctrl, wids, pids, k, startup, run, ret,
                   slg, straceErr, doneCh, proc, hist>>

\* cmd, err = strace.TraceExecCommand(straceLog, targetCmd...)
TraceCmd ==
    /\ pc = "trace_cmd"
    /\ \/ ReturnErr("tracecmd")
       \/ /\ pc' = "stdout_log"
          /\ UNCHANGED <<dirs, removed, fwOpen, logFds, ret>>
    /\ UNCHANGED <<aside, cfg, i, outRes, errs, faults, tryXToolClose, tryWmctrl, wids, pids, k,
                   startup, run, trace, proc, hist>>

\* cmd.Stdout: the log file (kept, opened for append) when one is configured.
StdoutLog ==
    /\ pc = "stdout_log"
    /\ \/ /\ cfg.ProgramStdoutLog
          /\ ReturnErr("stdoutlog")
       \/ /\ logFds' = IF cfg.ProgramStdoutLog
                       THEN logFds \cup {<<i, "stdout">>} ELSE logFds
          /\ pc' = "stderr_log"
          /\ UNCHANGED <<dirs, removed, fwOpen, ret>>
    /\ UNCHANGED <<aside, cfg, i, outRes, errs, faults, tryXToolClose, tryWmctrl, wids, pids, k,
                   startup, run, trace, proc, hist>>

StderrLog ==
    /\ pc = "stderr_log"
    /\ \/ /\ cfg.ProgramStderrLog
          /\ ReturnErr("stderrlog")
       \/ /\ logFds' = IF cfg.ProgramStderrLog
                       THEN logFds \cup {<<i, "stderr">>} ELSE logFds
          /\ pc' = "discard"
          /\ UNCHANGED <<dirs, removed, fwOpen, ret>>
    /\ UNCHANGED <<aside, cfg, i, outRes, errs, faults, tryXToolClose, tryWmctrl, wids, pids, k,
                   startup, run, trace, proc, hist>>

\* A plausible slip: the check of the flag combination is missing.
DiscardNeverRejected(x) == FALSE

\* --discard-snap-ns is only accepted together with --use-snap-run.
DiscardRejected(x) == x.DiscardSnapNs /\ ~x.RunThroughSnap

\* A plausible slip: the caches are not freed before the timed region.
StartWithoutFlush == "start"

\* What follows the namespace discard: the caches are freed, then the process
\* is started.
AfterDiscard == "free_caches"

\* if x.DiscardSnapNs { ... snaps.DiscardSnapNs(x.Args.Cmd[0]) }
Discard ==
    /\ pc = "discard"
    /\ \/ /\ ~cfg.DiscardSnapNs
          /\ pc' = AfterDiscard
          /\ UNCHANGED <<dirs, removed, fwOpen, logFds, ret, everDiscarded>>
       \/ /\ cfg.DiscardSnapNs
          /\ DiscardRejected(cfg)
          /\ ReturnErr("config")
          /\ UNCHANGED everDiscarded
       \/ /\ cfg.DiscardSnapNs
          /\ ~DiscardRejected(cfg)
          /\ everDiscarded' = TRUE
          /\ \/ ReturnErr("discard")
             \/ /\ pc' = AfterDiscard
                /\ UNCHANGED <<dirs, removed, fwOpen, logFds, ret>>
    /\ UNCHANGED <<aside, cfg, i, outRes, errs, faults, tryXToolClose, tryWmctrl, wids, pids, k,
                   startup, run, trace, proc, occurred, calls, killed, parseLog,
                   pastOccurred, everStarted>>

\* xtool, tryXToolClose, tryWmctrl, wids, windowspec; then profiling.FreeCaches()
FreeCaches ==
    /\ pc = "free_caches"
    /\ tryXToolClose' = TRUE
    /\ tryWmctrl' = FALSE
    /\ wids' = <<>>
    /\ calls' = [calls EXCEPT !.flush = @ + 1]
    /\ \/ ReturnErr("freecaches")
       \/ /\ pc' = "start"
          /\ UNCHANGED <<dirs, removed, fwOpen, logFds, ret>>
    /\ UNCHANGED <<aside, cfg, i, outRes, errs, faults, pids, k, startup, run, trace, proc,
                   occurred, killed, parseLog, pastOccurred, everStarted,
                   everDiscarded>>

\* start := time.Now(); err = cmd.Start()  -- err is overwritten or dropped later
Start ==
    /\ pc = "start"
    /\ proc' \in {"running", "startfailed"}
    /\ everStarted' = TRUE
    /\ calls' = [calls EXCEPT !.start = @ + 1]
    /\ pc' = "wait"
    /\ UNCHANGED <<aside, cfg, i, outRes, errs, faults, dirs, removed, fwOpen, logFds,
                   tryXToolClose, tryWmctrl, wids, pids, k, startup, run, ret,
                   trace, occurred, killed, parseLog, pastOccurred,
                   everDiscarded>>


\* ------------------------------------------------- Execute, after launch
\* What xdotool can hand back: the ids of zero or more windows.
WidLists == {[n \in 1..m |-> n] : m \in 0..MaxWindows}

\* The pid xdotool reports for a window (never 0).
PidOf(wid) == wid

\* A plausible slip: the window wait is run whatever --no-window-wait says.
NeverWaitsForExit(x) == FALSE

\* if x.NoWindowWait { cmd.Wait() } else { ... WaitForWindow ... }
WaitsForExit(x) == x.NoWindowWait

\* cmd.Wait() returns once the process is gone (at once when it never started).
WaitExit ==
    /\ pc = "wait"
    /\ WaitsForExit(cfg)
    /\ proc # "running"
    /\ pc' = "startup"
    /\ UNCHANGED <<aside, cfg, i, outRes, errs, faults, dirs, removed, fwOpen, logFds,
                   tryXToolClose, tryWmctrl, wids, pids, k, startup, run, ret,
                   trace, proc, hist>>

\* wids, err = xtool.WaitForWindow(windowspec)
WaitWindow ==
    /\ pc = "wait"
    /\ ~WaitsForExit(cfg)
    /\ calls' = [calls EXCEPT !.wait = @ + 1]
    /\ \/ /\ wids' \in WidLists
          /\ NoFail
          /\ UNCHANGED tryXToolClose
       \/ /\ wids' = <<>>
          /\ Inject("wait")
          /\ tryXToolClose' = FALSE
    /\ pc' = "startup"
    /\ UNCHANGED <<aside, cfg, i, outRes, dirs, removed, fwOpen, logFds, tryWmctrl,
                   pids, k, startup, run, ret, trace, proc, killed, parseLog,
                   pastOccurred, everStarted, everDiscarded>>

\* startup := time.Since(start); pids := make([]int, len(wids))
Startup ==
    /\ pc = "startup"
    /\ startup' \in Durations
    /\ pids' = IF tryXToolClose THEN [n \in 1..Len(wids) |-> 0] ELSE <<>>
    /\ k' = 1
    /\ pc' = IF tryXToolClose THEN "pids" ELSE "wmctrl"
    /\ UNCHANGED <<aside, cfg, i, outRes, errs, faults, dirs, removed, fwOpen, logFds,
                   tryXToolClose, tryWmctrl, wids, run, ret, trace, proc, hist>>

\* for i, wid := range wids { pid, err := xtool.PidForWindowID(wid) ... }
PidLoop ==
    /\ pc = "pids"
    /\ \/ /\ k > Len(wids)
          /\ pc' = "close"
          /\ k' = 1
          /\ NoFail
          /\ UNCHANGED <<pids, tryWmctrl, calls>>
       \/ /\ k <= Len(wids)
          /\ calls' = [calls EXCEPT !.pid = @ + 1]
          /\ \/ /\ pids' = [pids EXCEPT ![k] = PidOf(wids[k])]
                /\ k' = k + 1
                /\ pc' = "pids"
                /\ NoFail
                /\ UNCHANGED tryWmctrl
             \/ /\ Inject("pid")
                /\ tryWmctrl' = TRUE
                /\ pc' = "close"        \* break
                /\ k' = 1
                /\ UNCHANGED pids
    /\ UNCHANGED <<aside, cfg, i, outRes, dirs, removed, fwOpen, logFds, tryXToolClose,
                   wids, startup, run, ret, trace, proc, killed, parseLog,
                   pastOccurred, everStarted, everDiscarded>>

\* for _, wid := range wids { err = xtool.CloseWindowID(wid) ... }
CloseLoop ==
    /\ pc = "close"
    /\ \/ /\ k > Len(wids)
          /\ pc' = "kill"
          /\ k' = 1
          /\ NoFail
          /\ UNCHANGED <<tryWmctrl, calls>>
       \/ /\ k <= Len(wids)
          /\ calls' = [calls EXCEPT !.close = @ + 1]
          /\ k' = k + 1
          /\ pc' = "close"
          /\ \/ /\ NoFail
                /\ UNCHANGED tryWmctrl
             \/ /\ Inject("close")
                /\ tryWmctrl' = TRUE
    /\ UNCHANGED <<aside, cfg, i, outRes, dirs, removed, fwOpen, logFds, tryXToolClose,
                   wids, pids, startup, run, ret, trace, proc, killed, parseLog,
                   pastOccurred, everStarted, everDiscarded>>

\* What proc.Signal(os.Kill) can answer for a pid. os.FindProcess never fails
\* on unix; Signal refuses pid 0 ("os: process not initialized").
SignalOutcomes(pid) ==
    IF pid = 0 THEN {"error"} ELSE {"ok", "finished", "error"}

\* A plausible slip: "process already finished" is taken for a failure too.
KillAnyNonOk(outcome) == outcome # "ok"

\* Only an error other than "process already finished" is logged.
KillIsError(outcome) == outcome = "error"

\* for _, pid := range pids { proc.Signal(os.Kill) ... }
KillLoop ==
    /\ pc = "kill"
    /\ \/ /\ k > Len(pids)
          /\ pc' = "wmctrl"
          /\ k' = 1
          /\ NoFail
          /\ UNCHANGED <<tryWmctrl, killed>>
       \/ /\ k <= Len(pids)
          /\ k' = k + 1
          /\ pc' = "kill"
          /\ \E o \in SignalOutcomes(pids[k]) :
                /\ killed' = Append(killed, [pid |-> pids[k], outcome |-> o])
                /\ IF KillIsError(o)
                   THEN /\ IF pids[k] = 0 THEN Fail("kill") ELSE Inject("kill")
                        /\ tryWmctrl' = TRUE
                   ELSE NoFail /\ UNCHANGED tryWmctrl
    /\ UNCHANGED <<aside, cfg, i, outRes, dirs, removed, fwOpen, logFds, tryXToolClose,
                   wids, pids, startup, run, ret, trace, proc, calls, parseLog,
                   pastOccurred, everStarted, everDiscarded>>

\* A plausible slip: the fallback is tied to the window wait having failed.
FallbackOnWaitFailure(xclose, wm) == ~xclose

\* The guard of the close-by-name fallback: if tryWmctrl { ... }
FallbackDue(xclose, wm) == wm

\* if tryWmctrl { err = wmctrlCloseWindow(x.WindowName) ... }
Wmctrl ==
    /\ pc = "wmctrl"
    /\ \/ /\ FallbackDue(tryXToolClose, tryWmctrl)
          /\ calls' = [calls EXCEPT !.wmctrl = @ + 1]
          /\ \/ NoFail
             \/ Inject("wmctrl")
       \/ /\ ~FallbackDue(tryXToolClose, tryWmctrl)
          /\ NoFail
          /\ UNCHANGED calls
    /\ pc' = IF cfg.NoTrace THEN "restore" ELSE "close_fw"
    /\ UNCHANGED <<aside, cfg, i, outRes, dirs, removed, fwOpen, logFds, tryXToolClose,
                   tryWmctrl, wids, pids, k, startup, run, ret, trace, proc,
                   killed, parseLog, pastOccurred, everStarted, everDiscarded>>

\* fw.Close()
CloseFw ==
    /\ pc = "close_fw"
    /\ fwOpen' = FALSE
    /\ pc' = "wait_done"
    /\ UNCHANGED <<aside, cfg, i, outRes, errs, faults, dirs, removed, logFds, tryXToolClose,
                   tryWmctrl, wids, pids, k, startup, run, ret, trace, proc,
                   hist>>

\* A plausible slip: the control thread goes on without receiving.
ReceiveNeverBlocks(ch) == TRUE

\* A receive from doneCh returns once the channel is closed.
ReceiveReady(ch) == ch

\* <-doneCh
WaitDone ==
    /\ pc = "wait_done"
    /\ ReceiveReady(doneCh)
    /\ pc' = "inspect"
    /\ UNCHANGED <<aside, cfg, i, outRes, errs, faults, dirs, removed, fwOpen, logFds,
                   tryXToolClose, tryWmctrl, wids, pids, k, startup, run, ret,
                   trace, proc, hist>>

\* if straceErr == nil { display unless JSON } else { logError(...) }
Inspect ==
    /\ pc = "inspect"
    /\ IF straceErr THEN Fail("parse") ELSE NoFail
    /\ pc' = "restore"
    /\ UNCHANGED <<aside, cfg, i, outRes, dirs, removed, fwOpen, logFds, tryXToolClose,
                   tryWmctrl, wids, pids, k, startup, run, ret, trace, proc,
                   calls, killed, parseLog, pastOccurred, everStarted,
                   everDiscarded>>

\* The restore script: a failure is logged, never returned (x.RestoreScript
\* is handled as x.PrepareScript is).
Restore ==
    /\ pc = "restore"
    /\ \/ Inject("restore")
       \/ NoFail
    /\ pc' = "build"
    /\ UNCHANGED <<aside, cfg, i, outRes, dirs, removed, fwOpen, logFds, tryXToolClose,
                   tryWmctrl, wids, pids, k, startup, run, ret, trace, proc,
                   calls, killed, parseLog, pastOccurred, everStarted,
                   everDiscarded>>

\* slg.TotalTime dereferences slg: a nil slg panics.
Derefs(noTrace, timing) == ~noTrace /\ ~timing.present

\* run := Execution{...}; run.TimeToRun = ...
BuildRun ==
    /\ pc = "build"
    /\ IF Derefs(cfg.NoTrace, slg)
       THEN /\ pc' = "panicked"
            /\ ret' = "panic"
            /\ RunDefers
            /\ UNCHANGED run
       ELSE /\ run' = [ExecveTiming |-> slg, TimeToDisplay |-> startup,
                       TimeToRun |-> RunTime(cfg.NoTrace, startup, slg),
                       Errors |-> errs, trial |-> i]
            /\ pc' = "append"
            /\ UNCHANGED <<dirs, removed, fwOpen, logFds, ret>>
    /\ UNCHANGED <<aside, cfg, i, outRes, errs, faults, tryXToolClose, tryWmctrl, wids, pids, k,
                   startup, trace, proc, hist>>

\* outRes.Runs = append(outRes.Runs, run); resetErrors(); i++
AppendRun ==
    /\ pc = "append"
    /\ outRes' = Append(outRes, run)
    /\ errs' = ResetErrors(errs)
    /\ i' = i + 1
    /\ pc' = "loop"
    /\ pastOccurred' = Append(pastOccurred, occurred)
    /\ occurred' = <<>>
    /\ calls' = NoCalls
    /\ killed' = <<>>
    \* the iteration's variables go out of scope
    /\ tryXToolClose' = TRUE
    /\ tryWmctrl' = FALSE
    /\ wids' = <<>>
    /\ pids' = <<>>
    /\ k' = 1
    /\ startup' = 0
    /\ run' = NoRun
    /\ reader' = "none"
    /\ slg' = NilTiming
    /\ straceErr' = FALSE
    /\ doneCh' = FALSE
    /\ proc' = "none"
    /\ UNCHANGED <<aside, cfg, faults, dirs, removed, fwOpen, logFds, ret, parseLog,
                   everStarted, everDiscarded>>

\* if x.JSONOutput { json.NewEncoder(w).Encode(outRes) }; return nil
Encode ==
    /\ pc = "encode"
    /\ pc' = "done"
    /\ ret' = "nil"
    /\ RunDefers
    /\ UNCHANGED <<aside, cfg, i, outRes, errs, faults, tryXToolClose, tryWmctrl, wids, pids, k,
                   startup, run, trace, proc, hist>>

\* ------------------------------------------- the reader and the process
\* The fifo reaches end-of-stream when no writer is left: the sentinel is
\* closed and the tracer, which writes for as long as its process runs, is gone.
PipeEOF == ~fwOpen /\ proc # "running"

\* strace.TraceExecveTimings: a timing, or a failure and no timing.
ParseOutcomes ==
    {[slg |-> Timing(d), err |-> FALSE] : d \in Durations}
        \cup {[slg |-> NilTiming, err |-> TRUE]}

\* slg, straceErr = strace.TraceExecveTimings(straceLog, -1)
ReaderParse ==
    /\ ret = "running"
    /\ reader = "reading"
    /\ PipeEOF
    /\ \E o \in ParseOutcomes :
          /\ slg' = o.slg
          /\ straceErr' = o.err
          /\ parseLog' = Append(parseLog, o)
    /\ reader' = "parsed"
    /\ UNCHANGED <<aside, cfg, ctl, doneCh, proc, occurred, calls, killed,
                   pastOccurred, everStarted, everDiscarded>>

\* close(doneCh)
ReaderClose ==
    /\ ret = "running"
    /\ reader = "parsed"
    /\ doneCh' = TRUE
    /\ reader' = "done"
    /\ UNCHANGED <<aside, cfg, ctl, slg, straceErr, proc, hist>>

\* The launched process ends, by itself or because it was closed or killed.
ProcExit ==
    /\ ret = "running"
    /\ proc = "running"
    /\ proc' = "exited"
    /\ UNCHANGED <<aside, cfg, ctl, trace, hist>>

Next ==
    \/ OpenOutput \/ LoopHead \/ Prepare \/ TempDir \/ Mkfifo \/ OpenFifo
    \/ GoReader \/ TraceCmd \/ StdoutLog \/ StderrLog \/ Discard \/ FreeCaches
    \/ Start \/ WaitExit \/ WaitWindow \/ Startup \/ PidLoop \/ CloseLoop
    \/ KillLoop \/ Wmctrl \/ CloseFw \/ WaitDone \/ Inspect \/ Restore
    \/ BuildRun \/ AppendRun \/ Encode \/ ReaderParse \/ ReaderClose \/ ProcExit

Spec == Init /\ [][Next]_vars


\* ------------------------------------------------- files.EnsureExistsAndOpen
MaxBytes == 2

FileOf(n) == [exists |-> TRUE, size |-> n]
Files == {NoFile} \cup {FileOf(n) : n \in 0..MaxBytes}

\* EnsureExistsAndOpen(path, delete): an existing file is removed when delete
\* is set and a new one created; an existing file is otherwise opened for
\* appending; a missing file is created. Gives the file system afterwards
\* and what was done.
EnsureExistsAndOpen(fs, path, delete) ==
    LET exists == fs[path].exists
        remove == exists /\ delete
        keep == exists /\ ~remove
    IN  [fs   |-> IF keep THEN fs ELSE [fs EXCEPT ![path] = FileOf(0)],
         call |-> [existed |-> exists, delete |-> delete, removed |-> remove,
                   mode |-> IF keep THEN "append" ELSE "create",
                   before |-> fs[path]]]

\* A plausible slip: the program logs are opened like the output file.
LogDeleteAlways == TRUE

\* files.EnsureExistsAndOpen(x.OutputFile, true)
OutputDelete == TRUE
\* files.EnsureExistsAndOpen(x.ProgramStdoutLog, false), and the same for
\* x.ProgramStderrLog
LogDelete == FALSE

DeleteFlag(path) == IF path = "output" THEN OutputDelete ELSE LogDelete

OpenPath(path) ==
    LET r == EnsureExistsAndOpen(fsys, path, DeleteFlag(path))
    IN  /\ fsys' = r.fs
        /\ fcalls' = [fcalls EXCEPT ![path] = r.call]
        /\ UNCHANGED <<execute, window>>

\* The output file is opened once, before the trials.
OpenOutputFile ==
    /\ \A p \in Paths : fcalls[p] = NoCall
    /\ OpenPath("output")

\* The logs are opened anew in every trial, so a log may be opened again
\* after it was written to.
OpenStdoutLog == OpenPath("stdout")

OpenStderrLog == OpenPath("stderr")

\* The program (for a log) or etrace (for the output) writes a byte to an
\* open file; files opened for appending and files just created both grow
\* at their end.
WriteFile ==
    \E p \in Paths :
        /\ fcalls[p] # NoCall
        /\ fsys[p].size < MaxBytes
        /\ fsys' = [fsys EXCEPT ![p] = FileOf(@.size + 1)]
        /\ UNCHANGED <<fcalls, execute, window>>

InitSpecFiles ==
    /\ cfg = [NoTrace |-> TRUE, NoWindowWait |-> TRUE, RunThroughSnap |-> FALSE,
              DiscardSnapNs |-> FALSE, ProgramStdoutLog |-> TRUE,
              ProgramStderrLog |-> TRUE, AdditionalIterations |-> MaxAdditional]
    /\ InitExecute
    /\ InitWindow
    /\ fsys \in [Paths -> Files]
    /\ fcalls = [p \in Paths |-> NoCall]

NextFiles ==
    \/ OpenOutputFile
    \/ OpenStdoutLog
    \/ OpenStderrLog
    \/ WriteFile

SpecFiles == InitSpecFiles /\ [][NextFiles]_vars

\* ------------------------------------------------- targetCmd and windowspec
MaxPathLen == 3

PathChars == {"/", "a", "b"}
\* The first command token: any string of at most MaxPathLen characters.
Tokens == UNION {[1..n -> PathChars] : n \in 0..MaxPathLen}
\* x.Args.Cmd: the command and, possibly, one argument.
Cmds == {<<t>> : t \in Tokens} \cup {<<t, <<"b">>>> : t \in Tokens}
Options == [WindowClass : {<<>>, <<"c">>}, WindowName : {<<>>, <<"n">>},
            RunThroughSnap : BOOLEAN, Cmd : Cmds]

\* filepath.Base: trailing slashes are stripped, then everything up to the
\* last slash; "" gives ".", a path of slashes only gives "/".
RECURSIVE StripSlashes(_)
StripSlashes(path) ==
    IF Len(path) > 0 /\ path[Len(path)] = "/"
    THEN StripSlashes(SubSeq(path, 1, Len(path) - 1))
    ELSE path

RECURSIVE LastSlash(_, _)
LastSlash(path, n) ==
    IF n >= 1 /\ path[n] # "/" THEN LastSlash(path, n - 1) ELSE n

Base(path) ==
    IF path = <<>>
    THEN <<".">>
    ELSE LET stripped == StripSlashes(path)
             n == LastSlash(stripped, Len(stripped))
             last == IF n >= 1
                     THEN SubSeq(stripped, n + 1, Len(stripped))
                     ELSE stripped
         IN  IF last = <<>> THEN <<"/">> ELSE last

\* targetCmd := x.Args.Cmd, with "snap", "run" in front under --use-snap-run
TargetCmd(x) == IF x.RunThroughSnap THEN <<Snap, RunTok>> \o x.Cmd ELSE x.Cmd

\* A plausible slip: the class is derived from the rewritten command.
ClassFromTarget(cmd, target) == target

\* The command whose first token names the class: the original x.Args.Cmd,
\* not targetCmd.
ClassSource(cmd, target) == cmd

\* windowspec: x.WindowClass if given, else x.WindowName if given, else the
\* base name of the command as the class.
Windowspec(x, target) ==
    IF x.WindowClass # <<>>
    THEN [NoWindow EXCEPT !.Class = x.WindowClass]
    ELSE IF x.WindowName # <<>>
         THEN [NoWindow EXCEPT !.Name = x.WindowName]
         ELSE [NoWindow EXCEPT !.Class = Base(ClassSource(x.Cmd, target)[1])]

SetTargetCmd ==
    /\ wpc = "target"
    /\ targetCmd' = TargetCmd(opts)
    /\ wpc' = "window"
    /\ UNCHANGED <<opts, windowspec, execute, files>>

SetWindowspec ==
    /\ wpc = "window"
    /\ windowspec' = Windowspec(opts, targetCmd)
    /\ wpc' = "resolved"
    /\ UNCHANGED <<opts, targetCmd, execute, files>>

InitSpecWindow ==
    /\ opts \in Options
    /\ cfg = [NoTrace |-> FALSE, NoWindowWait |-> FALSE,
              RunThroughSnap |-> opts.RunThroughSnap, DiscardSnapNs |-> FALSE,
              ProgramStdoutLog |-> FALSE, ProgramStderrLog |-> FALSE,
              AdditionalIterations |-> 0]
    /\ InitExecute
    /\ InitFiles
    /\ targetCmd = <<>>
    /\ windowspec = NoWindow
    /\ wpc = "target"

NextWindow ==
    \/ SetTargetCmd
    \/ SetWindowspec

SpecWindow == InitSpecWindow /\ [][NextWindow]_vars


\* ================================================================ claims
Has(seq, e) == \E n \in 1..Len(seq) : seq[n] = e
Count(seq, e) == Cardinality({n \in 1..Len(seq) : seq[n] = e})

\* Positions of the control thread after the close-by-name step of a trial.
AfterWmctrl == {"close_fw", "wait_done", "inspect", "restore", "build", "append"}
\* Positions of the termination cascade.
CascadePcs == {"wait", "startup", "pids", "close", "kill", "wmctrl"}
\* The errors Execute returns for a fatal setup failure.
FatalSetup == {"outfile", "tmpdir", "mkfifo", "openfifo", "tracecmd",
               "stdoutlog", "stderrlog", "config", "discard", "freecaches"}

\* C1: the control thread reaches its wait on doneCh only when the traced
\* process has exited and the sentinel writer is closed, so that the reader
\* sees end-of-stream and the wait returns.
C1_WaitOnlyAfterExit ==
    pc = "wait_done" => (~fwOpen /\ proc # "running")

\* C2: once the reader goroutine of a trial is started, the trial's strace
\* temporary directory is not removed before doneCh is closed.
C2_DirOutlivesReader ==
    (reader # "none" /\ i \in removed) => doneCh

\* C3: the sentinel writer is closed only when the traced process is no
\* longer running, with and without the window wait.
C3_SentinelClosedAfterExit ==
    [][(fwOpen /\ ~fwOpen') => proc # "running"]_vars

\* C4: a run that ends without a fatal setup error holds 1 + n Executions,
\* the j-th built by the j-th trial, and j of them after j finished trials.
C4_OneExecutionPerTrial ==
    /\ (pc \notin {"open_out", "returned", "panicked", "done", "encode"}
            => Len(outRes) = i)
    /\ \A j \in 1..Len(outRes) : outRes[j].trial = j - 1
    /\ (ret \notin ({"running"} \cup FatalSetup) => Len(outRes) = TrialCount)

\* C5: a failure of the prepare script, the window wait, a pid resolution, a
\* window close, a termination signal, the close-by-name fallback or the
\* restore script never aborts the trial: the failure is appended to errs, the
\* cascade goes on to its end, the Execution built carries the failures in
\* their order of occurrence, one Execution is appended per trial and the
\* loop moves on to the next trial.
C5Kinds == {"prepare", "wait", "pid", "close", "kill", "wmctrl", "restore"}
C5_FailureStep ==
    /\ Len(occurred') = Len(occurred) + 1
    /\ occurred'[Len(occurred')] \in C5Kinds
C5_Recorded ==
    C5_FailureStep =>
        /\ ret' = "running"
        /\ i' = i
        /\ outRes' = outRes
        /\ errs' = Append(errs, occurred'[Len(occurred')])
C5_GoesOn ==
    /\ (pc \in CascadePcs) => (pc' \in (CascadePcs \cup {"close_fw", "restore"}))
    /\ (pc = "prepare" /\ pc' # pc) => (pc' \in {"tmpdir", "stdout_log"})
    /\ (pc = "restore" /\ pc' # pc) => (pc' = "build")
    /\ (pc = "append" /\ pc' # pc) =>
            (pc' = "loop" /\ i' = i + 1 /\ outRes' = Append(outRes, run))
C6_ParseFailureKeepsRun ==
    straceErr =>
        /\ pc # "panicked"
        /\ (pc \in {"restore", "build", "append"} => Has(errs, "parse"))
        /\ (pc = "append" => ~run.ExecveTiming.present)

\* C7: after a failed window wait the trial records one error for the wait,
\* attempts no pid resolution, window close or signal, and calls the
\* close-by-name fallback.
C7_WaitFailureFallsBack ==
    (pc \in AfterWmctrl /\ Has(occurred, "wait")) =>
        /\ Count(errs, "wait") = 1
        /\ calls.pid = 0
        /\ calls.close = 0
        /\ killed = <<>>
        /\ calls.wmctrl = 1

\* C8: in a trial whose window wait found windows and where a pid resolution
\* failed, close-by-name is called exactly once; errs holds the resolution
\* failure, and holds the fallback failure exactly if close-by-name failed,
\* after the resolution failure.
C8_FallbackOnceAfterPidFailure ==
    /\ calls.wmctrl <= 1
    /\ (pc \in AfterWmctrl /\ Has(occurred, "pid")) =>
          /\ calls.wmctrl = 1
          /\ Has(errs, "pid")
          /\ Has(errs, "wmctrl") <=> Has(occurred, "wmctrl")
          /\ \A a, b \in 1..Len(errs) :
                (errs[a] = "pid" /\ errs[b] = "wmctrl") => a < b
C8_Witness ==
    /\ pc = "restore"
    /\ Len(wids) = 2
    /\ errs = <<"pid", "kill", "kill", "wmctrl">>
    /\ calls.wmctrl = 1

\* C9: the TimeToRun of every Execution is its TimeToDisplay when tracing is
\* off, and the total the parser reported for that trial when tracing is on.
C9_RunTimeSource ==
    \A j \in 1..Len(outRes) :
        IF cfg.NoTrace
        THEN outRes[j].TimeToRun = outRes[j].TimeToDisplay
        ELSE /\ j <= Len(parseLog)
             /\ outRes[j].TimeToRun = parseLog[j].slg.TotalTime
C9_Witness ==
    /\ ~cfg.NoTrace
    /\ Len(outRes) = 1
    /\ outRes[1].TimeToRun # outRes[1].TimeToDisplay
    /\ Has(outRes[1].Errors, "wait")

\* C10 as stated: with --discard-snap-ns and without --use-snap-run the run
\* returns the configuration error, starts no process, discards no namespace
\* and appends no Execution.
C10_ConfigErrorReturned ==
    (cfg.DiscardSnapNs /\ ~cfg.RunThroughSnap) =>
        /\ ~everStarted
        /\ ~everDiscarded
        /\ outRes = <<>>
        /\ (ret # "running" => ret = "config")

\* C10 as amended: the run ends in its first trial with an error, which is
\* the configuration error unless opening the output file, setting up the
\* trace or opening a program log failed first; no process is started, no
\* namespace is discarded and no Execution is appended.
C10_RejectedBeforeLaunch ==
    (cfg.DiscardSnapNs /\ ~cfg.RunThroughSnap) =>
        /\ ~everStarted
        /\ ~everDiscarded
        /\ outRes = <<>>
        /\ i = 0
        /\ pc \in {"open_out", "loop", "prepare", "tmpdir", "mkfifo", "openfifo",
                   "go_reader", "trace_cmd", "stdout_log", "stderr_log",
                   "discard", "returned"}
        /\ (ret # "running" =>
                ret \in {"config", "outfile", "tmpdir", "mkfifo", "openfifo",
                         "tracecmd", "stdoutlog", "stderrlog"})
        /\ (pc = "returned" /\ ~cfg.NoTrace /\ reader # "none"
                /\ ~cfg.ProgramStdoutLog /\ ~cfg.ProgramStderrLog
                => ret \in {"config", "tracecmd"})
C10_Witness ==
    /\ cfg.DiscardSnapNs
    /\ ~cfg.RunThroughSnap
    /\ ret = "config"
    /\ errs = <<"prepare">>

\* C11: in every trial the caches are freed before the start time is taken and
\* the process is started; when freeing the caches or creating the trace
\* directory or pipe fails, that trial starts no process, the run returns that
\* error, and nothing runs afterwards: no later trial begins.
C11_FlushedBeforeStart ==
    (pc = "start" \/ calls.start >= 1) => calls.flush = 1
C11_FatalStopsTrial ==
    ret \in {"freecaches", "tmpdir", "mkfifo", "openfifo"} =>
        /\ pc = "returned"
        /\ calls.start = 0
        /\ Len(outRes) = i
C11_NothingAfterReturn ==
    (pc = "returned") =>
        (pc' = "returned" /\ i' = i /\ ret' = ret /\ calls' = calls
            /\ outRes' = outRes)
C11_FlushFirstAndFatal ==
    /\ [](C11_FlushedBeforeStart /\ C11_FatalStopsTrial)
    /\ [][C11_NothingAfterReturn]_vars
C11_Witness ==
    /\ ret = "freecaches"
    /\ i = 1
    /\ Len(outRes) = 1
    /\ everStarted

\* C12: when a trial after the first begins, no trace directory of an earlier
\* trial still exists and no log descriptor opened by an earlier trial is
\* still open.
C12_EarlierTrialsReleased ==
    (pc = "prepare" /\ i >= 1) =>
        /\ \A d \in dirs : d >= i
        /\ \A f \in logFds : f[1] >= i

\* C13: the Errors of the j-th Execution are exactly the errors that occurred
\* in trial j, in order, and an Execution once appended is never changed.
C13_ErrorsOfOwnTrial ==
    /\ Len(pastOccurred) = Len(outRes)
    /\ \A j \in 1..Len(outRes) : outRes[j].Errors = pastOccurred[j]
C13_Immutable ==
    \A j \in 1..Len(outRes) : Len(outRes') >= j /\ outRes'[j] = outRes[j]
C13_ErrorsPerTrial ==
    /\ []C13_ErrorsOfOwnTrial
    /\ [][C13_Immutable]_vars
C13_Witness ==
    /\ Len(outRes) = 2
    /\ outRes[1].Errors = <<"prepare">>
    /\ outRes[2].Errors = <<"restore">>

\* C15: close-by-name is invoked only after an earlier cascade step of the
\* same trial failed; when the window wait, every pid resolution and every
\* window close succeed and every signal succeeds or reports "process already
\* finished", the fallback flag stays unset, close-by-name is not invoked and
\* the cascade records no error.
CascadeKinds == {"wait", "pid", "close", "kill", "wmctrl"}
C15_CleanCascade ==
    /\ calls.wait = 1
    /\ \A e \in {"wait", "pid", "close"} : ~Has(occurred, e)
    /\ \A n \in 1..Len(killed) : killed[n].outcome \in {"ok", "finished"}
C16_SignalsOnlyResolved ==
    /\ \A n \in 1..Len(killed) :
            \E m \in 1..Len(wids) : killed[n].pid = PidOf(wids[m])
    /\ (pc \in {"wmctrl"} \cup AfterWmctrl /\ calls.wait = 1
            /\ ~Has(occurred, "wait")) =>
            \A m \in 1..Len(pids) :
                pids[m] # 0 => \E n \in 1..Len(killed) : killed[n].pid = pids[m]

\* C17: with window waiting disabled the control thread waits for the
\* process to exit and invokes none of the window wait, pid resolution,
\* window close, termination signal and close-by-name; with tracing disabled
\* as well no directory, pipe, sentinel writer or reader exists and the
\* control thread never waits on doneCh.
TracePcs == {"tmpdir", "mkfifo", "openfifo", "go_reader", "trace_cmd",
             "close_fw", "wait_done", "inspect"}
AfterWait == {"startup", "pids", "close", "kill", "wmctrl"} \cup AfterWmctrl
C17_NoWindowHandling ==
    /\ cfg.NoWindowWait =>
            /\ calls.wait = 0 /\ calls.pid = 0 /\ calls.close = 0
            /\ calls.wmctrl = 0 /\ killed = <<>>
            /\ (pc \in AfterWait => proc \in {"exited", "startfailed"})
    /\ (cfg.NoWindowWait /\ cfg.NoTrace) =>
            /\ dirs = {} /\ removed = {} /\ ~fwOpen
            /\ reader = "none" /\ ~doneCh
            /\ pc \notin TracePcs
C17_Witness ==
    /\ cfg.NoWindowWait
    /\ cfg.NoTrace
    /\ pc = "append"
    /\ i = 1
    /\ proc = "exited"

\* C18: the window wait is invoked only when the trial's process has been
\* started: after a failed start the window wait is not entered.
C18_WaitOnlyIfStarted ==
    proc = "startfailed" => (calls.wait = 0 /\ pc \notin AfterWait)

\* C19: the reader goroutine never touches errs; the parse failure is
\* appended by the control thread, and the parse result read by it, only
\* after doneCh was closed, when the reader has finished.
C19_ReaderStep ==
    reader' # reader /\ reader' \in {"parsed", "done"}
C19_ReaderLeavesErrs ==
    C19_ReaderStep => (errs' = errs /\ occurred' = occurred /\ pc' = pc)
C19_ControlAfterSignal ==
    /\ Has(errs, "parse") => (doneCh /\ reader = "done" /\ straceErr)
    /\ (~cfg.NoTrace /\ pc \in {"inspect", "restore", "build", "append"}) =>
            (doneCh /\ reader = "done")
C19_ErrsOnControlThread ==
    /\ []C19_ControlAfterSignal
    /\ [][C19_ReaderLeavesErrs]_vars
C19_Witness ==
    /\ pc = "restore"
    /\ Has(errs, "parse")
    /\ reader = "done"

\* C14: EnsureExistsAndOpen removes the file exactly when it exists and delete
\* is set; an existing file opened without delete is kept and appended to; a
\* missing file is never removed; the output file is opened with delete set,
\* the program's stdout and stderr logs without.
C14_CallOk(p) ==
    LET c == fcalls[p]
    IN  /\ c.removed <=> (c.existed /\ c.delete)
        /\ (c.existed /\ ~c.delete) =>
                /\ c.mode = "append"
                /\ fsys[p].exists
                /\ fsys[p].size >= c.before.size
        /\ ~c.existed => ~c.removed
        /\ c.delete <=> (p = "output")
        /\ fsys[p].exists
C20_IsBaseName(b, path) ==
    \/ path = <<>> /\ b = <<".">>
    \/ /\ path # <<>>
       /\ \A n \in 1..Len(path) : path[n] = "/"
       /\ b = <<"/">>
    \/ \E lo \in 1..Len(path) : \E hi \in lo..Len(path) :
            /\ b = SubSeq(path, lo, hi)
            /\ \A n \in lo..hi : path[n] # "/"
            /\ \A n \in (hi + 1)..Len(path) : path[n] = "/"
            /\ lo = 1 \/ path[lo - 1] = "/"
C20_ExactlyOneByPriority ==
    wpc = "resolved" =>
        /\ (windowspec.Class # <<>>) # (windowspec.Name # <<>>)
        /\ opts.WindowClass # <<>> =>
                (windowspec.Class = opts.WindowClass /\ windowspec.Name = <<>>)
        /\ (opts.WindowClass = <<>> /\ opts.WindowName # <<>>) =>
                (windowspec.Name = opts.WindowName /\ windowspec.Class = <<>>)
        /\ (opts.WindowClass = <<>> /\ opts.WindowName = <<>>) =>
                /\ windowspec.Name = <<>>
                /\ C20_IsBaseName(windowspec.Class, opts.Cmd[1])
C20_Witness ==
    /\ wpc = "resolved"
    /\ opts.RunThroughSnap
    /\ targetCmd[1] = Snap
    /\ opts.WindowClass = <<>> /\ opts.WindowName = <<>>
    /\ opts.Cmd = << <<"/", "a", "/">>, <<"b">> >>
    /\ windowspec.Class = <<"a">>

====
